---- MODULE Spec2Model ----
(***************************************************************************)
(* Leave / employee-status consistency of the HRMS backend.                *)
(*                                                                         *)
(* The committed database state is (employees, leaves, balances); `today`  *)
(* is the calendar day the handlers read with date.today()/utcnow().       *)
(* A handler is one action; `resp` is the HTTP response it returned.       *)
(* `sessions` holds the SQLAlchemy unit of work of each worker for the     *)
(* interleaved execution of PATCH /api/leaves/<id> (SpecConc).             *)
(***************************************************************************)
EXTENDS Integers, Sequences, FiniteSets, TLC

VARIABLES employees, leaves, balances, today, resp, sessions

vars == <<employees, leaves, balances, today, resp, sessions>>

(* ------------------------------- bounds -------------------------------- *)
NumEmp == 1
MaxLeaves == 2
MaxDay == 2
MaxAlloc == 3

(* ------------------------------ constants ------------------------------ *)
NULL == "NULL"
NoUser == 0
NoTime == 0

EmployeeIds == 1..NumEmp
LeaveTypes == {"annual"}
Days == 1..MaxDay
Workers == {"w1", "w2"}

\* Flask session of the caller: no session, an HR user, a non-HR user.
Anonymous == [user_id |-> NoUser, role |-> NULL]
HrUser == [user_id |-> 1, role |-> "HR"]
Candidate == [user_id |-> 2, role |-> "candidate"]
Sessions == {Anonymous, HrUser, Candidate}
\* Callers of PATCH /api/leaves/<id> (the handler checks no role).
PatchSessions == {Anonymous, HrUser}

\* "status" values a PATCH body can carry (NULL: key missing).
RawStatuses == {NULL, " Approved ", "rejected", "pending", "cancelled"}
RawReasons == {"", "r1"}
StoreFailures == {"none", "lookup", "emp", "commit"}

\* Employee.status values present in the table before any leave traffic.
InitStatuses == {"active", "inactive", "terminated", NULL}

(* ------------------------------ helpers -------------------------------- *)
\* str(x).strip().lower()
StripLower(s) ==
  CASE s = " Approved " -> "approved"
    [] s = "HR" -> "hr"
    [] OTHER -> s

\* Python truthiness of an optional string.
Falsy(s) == s = NULL \/ s = ""

SessionUserId(sess) == sess.user_id

hr_required(sess) ==
  sess.user_id # NoUser /\ StripLower(IF sess.role = NULL THEN "" ELSE sess.role) = "hr"

ValidStatus(raw) ==
  ~Falsy(raw) /\ StripLower(raw) \in {"approved", "rejected", "pending"}

LeaveIds == 1..Len(leaves)

Covers(lr, day) == lr.status = "approved" /\ lr.start_date <= day /\ lr.end_date >= day

\* {lr.employee_id for lr in LeaveRequest.query.filter(approved, start <= today, end >= today)}
OnLeaveIds(lrs, day) == { lrs[i].employee_id : i \in { j \in 1..Len(lrs) : Covers(lrs[j], day) } }

(* --------------------- PATCH /api/leaves/<id> -------------------------- *)
\* In-memory mutation of the loaded LeaveRequest row.
PatchLeave(lr, status, reason, sess, now) ==
  IF status = "approved"
    THEN [lr EXCEPT !.status = status, !.approved_at = now,
                    !.approved_by = SessionUserId(sess)]
    ELSE IF status = "rejected"
      THEN [lr EXCEPT !.status = status,
                      !.rejection_reason = IF Falsy(reason) THEN lr.rejection_reason ELSE reason]
      ELSE [lr EXCEPT !.status = status]

\* In-memory mutation of the Employee row of the request.
PatchEmployee(emps, lr, status) ==
  IF status = "approved" /\ lr.employee_id \in DOMAIN emps
    THEN [emps EXCEPT ![lr.employee_id].status = "on-leave"]
    ELSE emps

\* A ledger write that books the days as used without releasing the reservation.
PatchBalancesUsedOnly(bals, lr, status) ==
  IF status = "approved"
    THEN [bals EXCEPT ![<<lr.employee_id, lr.leave_type_id>>].used = @ + lr.total_days]
    ELSE bals

\* The handler never loads or writes a LeaveBalance row.
PatchBalances(bals, lr, status) == bals

\* Does the store raise SQLAlchemyError on the path the handler takes?
Raises(fail, leave_id, status) ==
  \/ fail = "lookup"
  \/ leave_id \in LeaveIds /\ fail = "emp" /\ status = "approved"
  \/ leave_id \in LeaveIds /\ fail = "commit"

\* Without the `if not lr` test the attribute write on None is a server error.
PatchCodeNoLookupTest(raw, leave_id, fail) ==
  IF ~ValidStatus(raw) THEN 400
  ELSE IF Raises(fail, leave_id, StripLower(raw)) \/ leave_id \notin LeaveIds THEN 500
  ELSE 200

\* A handler that looks the row up before it validates the body.
PatchCodeLookupFirst(raw, leave_id, fail) ==
  IF fail = "lookup" THEN 500
  ELSE IF leave_id \notin LeaveIds THEN 404
  ELSE IF ~ValidStatus(raw) THEN 400
  ELSE IF Raises(fail, leave_id, StripLower(raw)) THEN 500
  ELSE 200

PatchCode(raw, leave_id, fail) ==
  IF ~ValidStatus(raw) THEN 400
  ELSE IF Raises(fail, leave_id, StripLower(raw)) THEN 500
  ELSE IF leave_id \notin LeaveIds THEN 404
  ELSE 200

\* An error path that commits the unit of work instead of rolling it back.
CommittedNoRollback(code, before, dirty) == IF code \in {200, 500} THEN dirty ELSE before

\* What the transaction leaves committed: the unit of work on commit,
\* the state before the call on rollback.
Committed(code, before, dirty) == IF code = 200 THEN dirty ELSE before

\* JSON body of the 200 response.
LeaveJson(leave_id, lr) ==
  [id |-> leave_id, employee_id |-> lr.employee_id, status |-> lr.status,
   approved_by |-> lr.approved_by, approved_at |-> lr.approved_at]

leave_detail(leave_id, raw, reason, sess, fail) ==
  LET code == PatchCode(raw, leave_id, fail)
      status == StripLower(raw)
      found == ValidStatus(raw) /\ leave_id \in LeaveIds
      lr == leaves[leave_id]
  IN /\ leaves' = IF found
                    THEN Committed(code, leaves,
                           [leaves EXCEPT ![leave_id] = PatchLeave(lr, status, reason, sess, today)])
                    ELSE leaves
     /\ employees' = IF found
                       THEN Committed(code, employees, PatchEmployee(employees, lr, status))
                       ELSE employees
     /\ balances' = IF found
                      THEN Committed(code, balances, PatchBalances(balances, lr, status))
                      ELSE balances
     /\ resp' = [op |-> "leave_patch", code |-> code,
                 out |-> IF code = 200
                           THEN LeaveJson(leave_id, PatchLeave(lr, status, reason, sess, today))
                           ELSE <<>>,
                 commit |-> (code = 200)]
     /\ UNCHANGED <<today, sessions>>

(* ------------- PATCH /api/leaves/<id>, interleaved workers ------------- *)
\* Each worker serves one PATCH in its own SQLAlchemy session: it loads the
\* row and mutates it in memory, and later flushes and commits.

\* UPDATE ... SET only the attributes that changed since they were loaded.
Flush(row, loaded, dirty) ==
  [f \in DOMAIN row |-> IF dirty[f] # loaded[f] THEN dirty[f] ELSE row[f]]

LoadW(w, leave_id, raw, reason, sess) ==
  /\ sessions[w].pc = "idle"
  /\ LET status == StripLower(raw)
         code == PatchCode(raw, leave_id, "none")
     IN sessions' = [sessions EXCEPT ![w] =
          IF code # 200
            THEN [pc |-> "done", leave_id |-> leave_id, code |-> code,
                  loaded_status |-> NULL, status |-> NULL]
            ELSE [pc |-> "loaded", leave_id |-> leave_id, status |-> status,
                  loaded |-> leaves[leave_id],
                  dirty |-> PatchLeave(leaves[leave_id], status, reason, sess, today),
                  emp_loaded |-> employees,
                  emp_dirty |-> PatchEmployee(employees, leaves[leave_id], status)]]
  /\ UNCHANGED <<employees, leaves, balances, today, resp>>

CommitW(w) ==
  /\ sessions[w].pc = "loaded"
  /\ LET u == sessions[w]
     IN /\ leaves' = [leaves EXCEPT ![u.leave_id] = Flush(@, u.loaded, u.dirty)]
        /\ employees' = [e \in DOMAIN employees |->
                           Flush(employees[e], u.emp_loaded[e], u.emp_dirty[e])]
        /\ balances' = PatchBalances(balances, u.loaded, u.status)
        /\ sessions' = [sessions EXCEPT ![w] =
             [pc |-> "done", leave_id |-> u.leave_id, code |-> 200,
              loaded_status |-> u.loaded.status, status |-> u.status]]
  /\ UNCHANGED <<today, resp>>

\* The store raises on commit: rollback, 500.
RollbackW(w) ==
  /\ sessions[w].pc = "loaded"
  /\ sessions' = [sessions EXCEPT ![w] =
       [pc |-> "done", leave_id |-> sessions[w].leave_id, code |-> 500,
        loaded_status |-> sessions[w].loaded.status, status |-> sessions[w].status]]
  /\ UNCHANGED <<employees, leaves, balances, today, resp>>

(* ------------------------ GET /api/hr/employees ------------------------ *)
\* status_out of one employee
StatusOut(st, onLeave) ==
  IF onLeave THEN "on-leave"
  ELSE CASE st = NULL -> "active"
         [] st = "On Leave" -> "on-leave"
         [] OTHER -> st

\* A pass that marks employees on leave but never resets a stale mark.
ReconcileStatusNoReset(st, onLeave) == IF onLeave THEN "on-leave" ELSE st

\* A pass that flips the mark of an employee on leave instead of testing it.
ReconcileStatusToggle(st, onLeave) ==
  IF onLeave THEN (IF st = "on-leave" THEN "active" ELSE "on-leave")
  ELSE IF st = "on-leave" THEN "active" ELSE st

\* A pass that writes the displayed status back for every employee not on leave.
ReconcileStatusNormalises(st, onLeave) ==
  IF onLeave THEN "on-leave"
  ELSE IF st = "on-leave" \/ st = NULL THEN "active" ELSE st

\* stored status of one employee after the pass
ReconcileStatus(st, onLeave) ==
  IF onLeave THEN "on-leave"
  ELSE IF st = "on-leave" THEN "active" ELSE st

ListCode(sess) == IF hr_required(sess) THEN 200 ELSE 401

list_employees(sess) ==
  IF ListCode(sess) = 401
    THEN /\ resp' = [op |-> "list", code |-> 401, out |-> <<>>, commit |-> FALSE]
         /\ UNCHANGED <<employees, leaves, balances, today, sessions>>
    ELSE LET ids == OnLeaveIds(leaves, today)
             new == [e \in DOMAIN employees |->
                       [employees[e] EXCEPT !.status = ReconcileStatus(@, e \in ids)]]
             to_update == \E e \in DOMAIN employees : new[e].status # employees[e].status
         IN /\ employees' = new
            /\ resp' = [op |-> "list", code |-> 200,
                        out |-> [e \in DOMAIN employees |->
                                   StatusOut(employees[e].status, e \in ids)],
                        commit |-> to_update]
            /\ UNCHANGED <<leaves, balances, today, sessions>>

(* --------------------------- GET /api/hr/stats ------------------------- *)
\* Of the response, the fields computed from employees and leave requests
\* (presentToday and departments read tables no leave operation writes).
\* A count of the approved requests that forgets the date filter.
StatsOnLeaveNoDates(lrs, day) ==
  Cardinality({ i \in 1..Len(lrs) : lrs[i].status = "approved" })

\* LeaveRequest.query.filter(approved, start <= today, end >= today).count()
StatsOnLeave(lrs, day) == Cardinality({ i \in 1..Len(lrs) : Covers(lrs[i], day) })

hr_stats(sess) ==
  /\ resp' = IF ~hr_required(sess)
               THEN [op |-> "stats", code |-> 401, out |-> <<>>, commit |-> FALSE]
               ELSE [op |-> "stats", code |-> 200,
                     out |-> [totalEmployees |-> Cardinality(DOMAIN employees),
                              onLeave |-> StatsOnLeave(leaves, today)],
                     commit |-> FALSE]
  /\ UNCHANGED <<employees, leaves, balances, today, sessions>>

(* --------------------------- leave submission -------------------------- *)
\* Ledger.reserve + request creation, as one transaction.
Submit(e, lt, start, end) ==
  /\ Len(leaves) < MaxLeaves
  /\ LET days == end - start + 1
         row == balances[<<e, lt>>]
     IN IF start > end
          THEN /\ resp' = [op |-> "submit:ValidationError", code |-> 0, out |-> <<>>, commit |-> FALSE]
               /\ UNCHANGED <<leaves, balances>>
          ELSE IF row.balance - days < 0
            THEN /\ resp' = [op |-> "submit:InsufficientBalance", code |-> 0, out |-> <<>>, commit |-> FALSE]
                 /\ UNCHANGED <<leaves, balances>>
            ELSE /\ leaves' = Append(leaves,
                       [employee_id |-> e, leave_type_id |-> lt, start_date |-> start,
                        end_date |-> end, total_days |-> days, status |-> "pending",
                        approved_by |-> NoUser, approved_at |-> NoTime,
                        rejection_reason |-> NULL])
                 /\ balances' = [balances EXCEPT ![<<e, lt>>] =
                       [@ EXCEPT !.pending = @ + days, !.balance = @ - days]]
                 /\ resp' = [op |-> "submit:ok", code |-> 0, out |-> <<>>, commit |-> TRUE]
  /\ UNCHANGED <<employees, today, sessions>>

\* The calendar moves on.
Tick ==
  /\ today < MaxDay
  /\ today' = today + 1
  /\ resp' = [op |-> "tick", code |-> 0, out |-> <<>>, commit |-> FALSE]
  /\ UNCHANGED <<employees, leaves, balances, sessions>>

(* ------------------------------ behaviour ------------------------------ *)
IdleSession == [pc |-> "idle"]

Init ==
  /\ employees \in [EmployeeIds -> [status : InitStatuses]]
  /\ leaves = <<>>
  /\ balances = [k \in EmployeeIds \X LeaveTypes |->
                   [total_allocated |-> MaxAlloc, used |-> 0, pending |-> 0, balance |-> MaxAlloc]]
  /\ today = 1
  /\ resp = [op |-> "none", code |-> 0, out |-> <<>>, commit |-> FALSE]
  /\ sessions = [w \in Workers |-> IdleSession]

\* The body's rejection_reason is read only by the 'rejected' branch and the
\* session only by the 'approved' branch: the other calls carry one value.
ReasonsFor(raw) == IF StripLower(raw) = "rejected" THEN RawReasons ELSE {""}
SessionsFor(raw) == IF StripLower(raw) = "approved" THEN PatchSessions ELSE {HrUser}

Decide ==
  \E leave_id \in 1..(MaxLeaves + 1), raw \in RawStatuses :
    \E reason \in ReasonsFor(raw), sess \in SessionsFor(raw) :
       leave_detail(leave_id, raw, reason, sess, "none")

\* The same call while the store raises SQLAlchemyError.
DecideFails ==
  \E leave_id \in 1..(MaxLeaves + 1), raw \in {r \in RawStatuses : ValidStatus(r)},
     fail \in StoreFailures \ {"none"} :
       leave_detail(leave_id, raw, "r1", HrUser, fail)

ListEmployees == \E sess \in Sessions : list_employees(sess)

SubmitLeave == \E e \in EmployeeIds, lt \in LeaveTypes, start \in Days, end \in Days :
                 Submit(e, lt, start, end)

HrStats == \E sess \in Sessions : hr_stats(sess)

Next == Decide \/ DecideFails \/ ListEmployees \/ HrStats \/ SubmitLeave \/ Tick

Spec == Init /\ [][Next]_vars

LoadStep == \E w \in Workers, leave_id \in 1..(MaxLeaves + 1), raw \in RawStatuses :
              \E reason \in ReasonsFor(raw), sess \in SessionsFor(raw) :
                 LoadW(w, leave_id, raw, reason, sess)

CommitStep == \E w \in Workers : CommitW(w)

RollbackStep == \E w \in Workers : RollbackW(w)

NextConc == SubmitLeave \/ LoadStep \/ CommitStep \/ RollbackStep

SpecConc == Init /\ [][NextConc]_vars

(* ------------------------------ properties ----------------------------- *)
Terminal == {"approved", "rejected"}

BalanceKey(lr) == <<lr.employee_id, lr.leave_type_id>>

\* C1: a leave request that is approved or rejected is never changed again:
\* every later PATCH leaves its status and audit fields as they are.
TransitionSafety ==
  [][\A i \in LeaveIds : leaves[i].status \in Terminal => leaves'[i] = leaves[i]]_vars

\* C2: every LeaveBalance row satisfies balance = total_allocated - used - pending
\* with used, pending and balance all non-negative.
LedgerInvariant ==
  \A k \in DOMAIN balances :
    /\ balances[k].balance = balances[k].total_allocated - balances[k].used - balances[k].pending
    /\ balances[k].used >= 0
    /\ balances[k].pending >= 0
    /\ balances[k].balance >= 0

\* C2 witness: days are reserved for an employee and one of the requests is approved.
LedgerWitness ==
  \E i \in LeaveIds :
    /\ leaves[i].status = "approved"
    /\ balances[BalanceKey(leaves[i])].pending >= leaves[i].total_days
    /\ resp.op = "leave_patch" /\ resp.code = 200

\* C3: the step that approves a pending request of d days moves d days from
\* pending to used in the matching LeaveBalance row.
CommitOnApproval ==
  [][\A i \in LeaveIds :
       (leaves[i].status = "pending" /\ leaves'[i].status = "approved") =>
         LET k == BalanceKey(leaves[i])
             d == leaves[i].total_days
         IN /\ balances'[k].pending = balances[k].pending - d
            /\ balances'[k].used = balances[k].used + d]_vars

\* C4: the employee listing reports 'on-leave' exactly for the employees with
\* an approved leave request covering today.
AuthoritativeRead ==
  (resp.op = "list" /\ resp.code = 200) =>
    \A e \in DOMAIN employees :
      resp.out[e] = "on-leave" <=> e \in OnLeaveIds(leaves, today)

\* C5: after the listing of an HR caller, the stored status of every employee is
\* 'on-leave' exactly when an approved leave request of theirs covers today.
ReconcilePostcondition ==
  (resp.op = "list" /\ resp.code = 200) =>
    \A e \in DOMAIN employees :
      employees[e].status = "on-leave" <=> e \in OnLeaveIds(leaves, today)

\* C5 witness: the pass met a stale 'on-leave' (no approved leave covers today)
\* and reset it to 'active'.
ReconcileWitness ==
  /\ resp.op = "list" /\ resp.code = 200
  /\ \E e \in DOMAIN employees :
       /\ resp.out[e] = "on-leave"
       /\ e \notin OnLeaveIds(leaves, today)
       /\ employees[e].status = "active"

\* C6: a step sets an employee's stored status to 'on-leave' only if an approved
\* request of that employee covers today.
ApprovalUsesPredicate ==
  [][\A e \in DOMAIN employees :
       (employees[e].status # "on-leave" /\ employees'[e].status = "on-leave") =>
         e \in OnLeaveIds(leaves', today')]_vars

\* C7: a successful PATCH with status 'pending' changes no leave request, no
\* employee and no leave balance.
DecidePendingInert ==
  [][(resp'.op = "leave_patch" /\ resp'.code = 200 /\ resp'.out.status = "pending") =>
       UNCHANGED <<leaves, employees, balances>>]_vars

\* C8: of two PATCH calls that both loaded the same request while it was
\* pending, at most one commits a decision.
DecisionsSerialized ==
  \A v, w \in Workers :
    (/\ v # w
     /\ sessions[v].pc = "done" /\ sessions[w].pc = "done"
     /\ sessions[v].leave_id = sessions[w].leave_id
     /\ sessions[v].loaded_status = "pending" /\ sessions[w].loaded_status = "pending"
     /\ sessions[v].status \in Terminal /\ sessions[w].status \in Terminal)
    => ~(sessions[v].code = 200 /\ sessions[w].code = 200)

\* C9: a PATCH during which the store raises (on the request lookup, the
\* employee lookup or the commit) returns 500, and a PATCH that returns 500 commits
\* nothing: leave requests, employees and balances are those before the call.
AtomicityOnFailure ==
  /\ [](\A leave_id \in 1..(MaxLeaves + 1), raw \in RawStatuses, fail \in StoreFailures :
          (ValidStatus(raw) /\ Raises(fail, leave_id, StripLower(raw)))
            => PatchCode(raw, leave_id, fail) = 500)
  /\ [][(resp'.op = "leave_patch" /\ resp'.code = 500) =>
          UNCHANGED <<leaves, employees, balances>>]_vars

\* C9 witness: the store raised during a PATCH while a request was waiting for
\* its decision.
AtomicityWitness ==
  /\ resp.op = "leave_patch" /\ resp.code = 500
  /\ \E i \in LeaveIds : leaves[i].status = "pending"

\* C10: a PATCH with a valid status on an id that has no row answers 404, and a
\* PATCH answered 404 changes no leave request, employee or leave balance.
UnknownIdNotFound ==
  /\ [](\A leave_id \in 1..(MaxLeaves + 1), raw \in RawStatuses :
          (leave_id \notin LeaveIds /\ ValidStatus(raw))
            => PatchCode(raw, leave_id, "none") = 404)
  /\ [][(resp'.op = "leave_patch" /\ resp'.code = 404) =>
          UNCHANGED <<leaves, employees, balances>>]_vars

\* C10 witness: a PATCH on an unknown id was answered while requests exist.
UnknownIdWitness ==
  /\ resp.op = "leave_patch" /\ resp.code = 404
  /\ Len(leaves) > 0

\* C11: a PATCH whose status is missing or, trimmed and lower-cased, is none of
\* approved / rejected / pending answers 400 whether or not the id has a row (and
\* whatever the store would do), and a PATCH answered 400 changes nothing.
InvalidDecision(raw) ==
  raw = NULL \/ StripLower(raw) \notin {"approved", "rejected", "pending"}

InvalidStatusRejected ==
  /\ [](\A leave_id \in 1..(MaxLeaves + 1), raw \in RawStatuses, fail \in StoreFailures :
          InvalidDecision(raw) => PatchCode(raw, leave_id, fail) = 400)
  /\ [][(resp'.op = "leave_patch" /\ resp'.code = 400) =>
          UNCHANGED <<leaves, employees, balances>>]_vars

\* C11 witness: a PATCH was answered 400 while no leave request exists at all,
\* so its id had no row.
InvalidStatusWitness ==
  /\ resp.op = "leave_patch" /\ resp.code = 400
  /\ leaves = <<>>

\* C12: a listing that directly follows a listing (same day, no change in
\* between) writes nothing: no stored status changes and no commit is issued.
ReconcileIdempotent ==
  [][(/\ resp.op = "list" /\ resp.code = 200
      /\ resp'.op = "list" /\ resp'.code = 200)
       => (employees' = employees /\ ~resp'.commit)]_vars

\* C12 witness: a listing that wrote nothing over a reconciled table in which an
\* employee is on leave (the state a repeated listing ends in).
ReconcileIdempotentWitness ==
  /\ resp.op = "list" /\ resp.code = 200 /\ ~resp.commit
  /\ \E e \in DOMAIN employees :
       /\ employees[e].status = "on-leave"
       /\ e \in OnLeaveIds(leaves, today)

\* C13: no step changes a stored status of 'inactive' or 'terminated'.
NonLeaveStatusesKept ==
  [][\A e \in DOMAIN employees :
       employees[e].status \in {"inactive", "terminated"} =>
         employees'[e].status = employees[e].status]_vars

\* C14: every approved leave request carries the deciding user in approved_by
\* and a time in approved_at.
ApprovalAudited ==
  \A i \in LeaveIds :
    leaves[i].status = "approved" =>
      (leaves[i].approved_by # NoUser /\ leaves[i].approved_at # NoTime)

\* C15: a listing writes the status of exactly the employees whose stored status
\* disagrees with the on-leave predicate and nothing else, commits only if there
\* is such an employee, and answers 401 without any change to a non-HR caller.
Stale(e) ==
  \/ e \in OnLeaveIds(leaves, today) /\ employees[e].status # "on-leave"
  \/ e \notin OnLeaveIds(leaves, today) /\ employees[e].status = "on-leave"

StatsMatchesListing ==
  (resp.op = "stats" /\ resp.code = 200) =>
    resp.out.onLeave =
      Cardinality({ e \in DOMAIN employees :
        ReconcileStatus(employees[e].status, e \in OnLeaveIds(leaves, today)) = "on-leave" })

\* C16 amended: the onLeave number of hr_stats is the number of approved leave
\* requests covering today; it is at least the number of employees with such a
\* request (those the listing stores as 'on-leave'), and equal to it when no
\* employee has two of them.
CoveringRequests(e) ==
  { i \in LeaveIds : leaves[i].employee_id = e /\ leaves[i].status = "approved"
                      /\ leaves[i].start_date <= today /\ today <= leaves[i].end_date }

StatsCountsRequests ==
  (resp.op = "stats" /\ resp.code = 200) =>
    /\ resp.out.onLeave =
         Cardinality({ i \in LeaveIds : i \in CoveringRequests(leaves[i].employee_id) })
    /\ resp.out.onLeave >= Cardinality(OnLeaveIds(leaves, today))
    /\ (\A e \in DOMAIN employees : Cardinality(CoveringRequests(e)) <= 1)
         => resp.out.onLeave = Cardinality(OnLeaveIds(leaves, today))

\* C16 witness: one employee has two approved requests covering today and
\* hr_stats counts both.
StatsWitness ==
  /\ resp.op = "stats" /\ resp.code = 200
  /\ resp.out.onLeave = 2
  /\ Cardinality(OnLeaveIds(leaves, today)) = 1

====
